---- MODULE Spec2Model ----
(***************************************************************************)
(* Konstel backend: the conversational graph-mutation pipeline             *)
(* (agents/conversation_agent.py), the goal evaluator                      *)
(* (agents/goal_refinement_agent.py), the pydantic models they build       *)
(* (models/data_models.py) and the model gateway (llm_client.py).          *)
(*                                                                         *)
(* Strings are sequences of one-character strings, so that lower(),        *)
(* equality and the `in` substring test are computed and not assumed.      *)
(* Floats with one decimal are integers in tenths (0.7 is 7).              *)
(***************************************************************************)
EXTENDS Integers, Sequences, FiniteSets, TLC

VARIABLES
    constellation,  \* the ConstellationDetail handed to the agent: nodes, edges
    pc,             \* position of the running call
    title,          \* _find_node_by_title: the title argument
    found,          \* _find_node_by_title: the returned node (NoNode for None)
    parseOut,       \* outcome of the intent-parsing model call
    intent,         \* value returned by _parse_intent
    modifications,  \* list returned by _execute_graph_modification
    respOut,        \* outcome of the response-generation model call
    response,       \* the ChatResponse returned by process_message
    exc,            \* exception that left the running call ("none" if none)
    llmCalls,       \* number of chat.completions.create requests issued
    goalOut,        \* outcome of the goal-evaluation model call
    evaluation,     \* value returned by evaluate_goal
    stored,         \* the graph the database holds for the constellation
    provider,       \* LLMClient.provider
    openai_client,  \* LLMClient.openai_client is not None
    served,         \* the model requests sent so far: backend and model name
    gwResult,       \* what the last chat_completion call gave its caller
    lookup,         \* _find_edge_between_nodes: the source_id, target_id given
    edge,           \* _find_edge_between_nodes: the returned edge (NoEdge for None)
    context,        \* value returned by _build_graph_context
    suggested,      \* value returned by suggest_improvements
    turns,          \* the chat requests being served concurrently, one record each
    foreign_keys    \* the foreign_keys setting a new database connection has

vars == <<constellation, pc, title, found, parseOut, intent, modifications,
          respOut, response, exc, llmCalls, goalOut, evaluation, stored,
          provider, openai_client, served, gwResult, lookup, edge, context,
          suggested, turns, foreign_keys>>

\* what the operations on one part of the program leave alone
others == <<lookup, edge, context, suggested, turns, foreign_keys>>

(***************************************************************************)
(* Bounds of the model.                                                    *)
(***************************************************************************)
MaxTitleLen == 2
MaxNodes == 2
MaxChatNodes == 2
MaxEdges == 1
MaxTokens == 3
MaxCalls == 3
MaxEdgeList == 2
MaxContextNodes == 11
MaxDbNodes == 2
MaxDbEdges == 2
MaxTurns == 2

(***************************************************************************)
(* Strings.                                                                *)
(***************************************************************************)
Chars == {"a", "A", "b"}

\* str.lower() on one character
LowerChar(c) == CASE c = "A" -> "a"
                  [] c = "B" -> "b"
                  [] OTHER -> c

\* str.lower()
Lower(s) == [i \in 1..Len(s) |-> LowerChar(s[i])]

\* Python's `needle in hay` on strings; the empty string is in every string
StrIn(needle, hay) ==
    \E i \in 0..(Len(hay) - Len(needle)) :
        SubSeq(hay, i + 1, i + Len(needle)) = needle

SeqsUpTo(S, n) == UNION {[1..k -> S] : k \in 0..n}

\* Node.title: Field(..., min_length=1)
NodeTitles == SeqsUpTo(Chars, MaxTitleLen) \ {<<>>}

\* a title argument: any string, the empty one included
QueryTitles == SeqsUpTo(Chars, MaxTitleLen)

(***************************************************************************)
(* The graph snapshot.  A node's id is its position in the node list, an   *)
(* edge's id its position in the edge list: ids are unique per collection. *)
(***************************************************************************)
NoNode == [id |-> 0, title |-> <<>>]
NoEdge == [id |-> 0, source_id |-> 0, target_id |-> 0]

MkNodes(titles) == [i \in 1..Len(titles) |-> [id |-> i, title |-> titles[i]]]

MkEdges(pairs) ==
    [i \in 1..Len(pairs) |->
        [id |-> i, source_id |-> pairs[i][1], target_id |-> pairs[i][2]]]

NodeIds(c) == {c.nodes[i].id : i \in 1..Len(c.nodes)}
EdgeIds(c) == {c.edges[i].id : i \in 1..Len(c.edges)}

(***************************************************************************)
(* ConversationAgent._find_node_by_title                                   *)
(***************************************************************************)
RECURSIVE FirstExact(_, _, _)
\* for node in constellation.nodes: if node.title.lower() == title_lower: return node
FirstExact(nodes, title_lower, i) ==
    IF i > Len(nodes) THEN NoNode
    ELSE IF Lower(nodes[i].title) = title_lower THEN nodes[i]
    ELSE FirstExact(nodes, title_lower, i + 1)

RECURSIVE FirstPartial(_, _, _)
\* for node in constellation.nodes:
\*     if title_lower in node.title.lower() or node.title.lower() in title_lower
FirstPartial(nodes, title_lower, i) ==
    IF i > Len(nodes) THEN NoNode
    ELSE IF StrIn(title_lower, Lower(nodes[i].title))
            \/ StrIn(Lower(nodes[i].title), title_lower) THEN nodes[i]
    ELSE FirstPartial(nodes, title_lower, i + 1)

\* a resolver that tests equality and containment in one pass
FindNodeSinglePass(c, t) == FirstPartial(c.nodes, Lower(t), 1)

\* a resolver whose second pass only tests `title_lower in node.title.lower()`
FindNodeOneDirection(c, t) ==
    LET exact == FirstExact(c.nodes, Lower(t), 1)
        sub == {i \in 1..Len(c.nodes) : StrIn(Lower(t), Lower(c.nodes[i].title))}
    IN  IF exact # NoNode THEN exact
        ELSE IF sub = {} THEN NoNode
        ELSE c.nodes[CHOOSE i \in sub : \A j \in sub : i <= j]

FindNodeByTitle(c, t) ==
    LET title_lower == Lower(t)
        exact == FirstExact(c.nodes, title_lower, 1)
    IN  IF exact # NoNode THEN exact
        ELSE FirstPartial(c.nodes, title_lower, 1)

(***************************************************************************)
(* ConversationAgent._find_edge_between_nodes                              *)
(***************************************************************************)
RECURSIVE FirstEdgeBetween(_, _, _, _)
FirstEdgeBetween(edges, source_id, target_id, i) ==
    IF i > Len(edges) THEN NoEdge
    ELSE IF \/ (edges[i].source_id = source_id /\ edges[i].target_id = target_id)
            \/ (edges[i].source_id = target_id /\ edges[i].target_id = source_id)
         THEN edges[i]
    ELSE FirstEdgeBetween(edges, source_id, target_id, i + 1)

\* a lookup that accepts any edge touching the source node
FindEdgeTouchingSource(c, source_id, target_id) ==
    LET touching == {i \in 1..Len(c.edges) :
                        \/ c.edges[i].source_id = source_id
                        \/ c.edges[i].target_id = source_id}
    IN  IF touching = {} THEN NoEdge
        ELSE c.edges[CHOOSE i \in touching : \A j \in touching : i <= j]

FindEdgeBetweenNodes(c, source_id, target_id) ==
    FirstEdgeBetween(c.edges, source_id, target_id, 1)

(***************************************************************************)
(* JSON values as json.loads returns them.  A value of a parameter is      *)
(* tagged with its type: a key that is absent ("missing"), a string, a     *)
(* number (in tenths) or null.                                             *)
(***************************************************************************)
Missing == [k |-> "missing", s |-> <<>>, n |-> 0]
Null == [k |-> "null", s |-> <<>>, n |-> 0]
Str(s) == [k |-> "str", s |-> s, n |-> 0]
Num(n) == [k |-> "num", s |-> <<>>, n |-> n]

\* dict.get(key, default)
Get(v, default) == IF v.k = "missing" THEN default ELSE v

NoException == "none"
NoExc == [type |-> NoException, at |-> "none"]

Actions == {"add_node", "remove_node", "modify_node", "add_edge",
            "remove_edge", "query", "general"}

\* intent["parameters"]: ptype is "dict", "absent" (no such key) or
\* "notdict" (a list, a string, a number or null)
NoParams(ptype) ==
    [ptype |-> ptype, title |-> Missing, node_type |-> Missing,
     impact_score |-> Missing, node_title |-> Missing,
     source_title |-> Missing, target_title |-> Missing,
     relationship_type |-> Missing, weight |-> Missing]

\* the value json.loads returned: jtype is "object", "list", "string",
\* "number" or "null"; action "MISSING" is an object without the key.
\* suggestions is "list" (a list of strings), "absent" or "notlist".
MkIntent(jtype, action, parameters, confidence, suggestions) ==
    [jtype |-> jtype, action |-> action, parameters |-> parameters,
     confidence |-> confidence, suggestions |-> suggestions]

NoIntent == MkIntent("none", "MISSING", NoParams("absent"), 0, "absent")

\* conversation_agent.py:118-123
FallbackIntent ==
    MkIntent("object", "general", NoParams("dict"), 1, "rephrase")

(***************************************************************************)
(* Outcomes of the intent-parsing model call.                              *)
(***************************************************************************)
TitleArgs == {Missing, Null, Str(<<"a">>), Str(<<"b">>), Str(<<"c">>)}

NodeParams ==
    {[NoParams("dict") EXCEPT !.node_title = t] : t \in TitleArgs}

EdgeParams ==
    {[NoParams("dict") EXCEPT !.source_title = s, !.target_title = t]
        : s \in TitleArgs, t \in TitleArgs}

\* a weight key is outside the prompt's add_edge schema (lines 69-90) but
\* nothing keeps the model's JSON from carrying one
AddEdgeParams ==
    {[p EXCEPT !.relationship_type = r, !.weight = w]
        : p \in EdgeParams, r \in {Missing, Str(<<"blocks">>)},
          w \in {Missing, Num(3)}}

AddNodeParams ==
    {[NoParams("dict") EXCEPT !.title = t, !.node_type = y, !.impact_score = x]
        : t \in {Missing, Str(<<"a">>)}, y \in {Missing, Str(<<"goal">>)},
          x \in {Missing, Num(9)}}

ParamsFor(action) ==
    {NoParams("notdict")} \cup
    CASE action = "add_node" -> AddNodeParams
      [] action \in {"remove_node", "modify_node"} -> NodeParams
      [] action = "add_edge" -> AddEdgeParams
      [] action = "remove_edge" -> EdgeParams
      [] OTHER -> {NoParams("absent"), NoParams("dict")}

Confidences == {1, 9}
SuggestionKinds == {"list", "absent", "notlist"}

JsonObjects ==
    {MkIntent("object", a, p, 9, "list")
        : a \in {"bogus", "MISSING"}, p \in ParamsFor("bogus")}
    \cup UNION {
        {MkIntent("object", a, p, cf, sg)
            : p \in ParamsFor(a), cf \in Confidences, sg \in SuggestionKinds}
        : a \in Actions}

JsonNonObjects ==
    {MkIntent(j, "MISSING", NoParams("absent"), 0, "absent")
        : j \in {"list", "string", "number", "null"}}

\* kind: "fail" (the request raised), "null" (message.content is None),
\* "nonjson" (content is text json.loads rejects), "json"
MkOutcome(kind, value) == [kind |-> kind, value |-> value]
NoOutcome == MkOutcome("none", NoIntent)

ParseOutcomes ==
    {MkOutcome(k, NoIntent) : k \in {"fail", "null", "nonjson"}}
    \cup {MkOutcome("json", v) : v \in JsonObjects \cup JsonNonObjects}

\* json.loads(content)
JsonLoads(out) ==
    CASE out.kind = "null" -> [exc |-> "TypeError", value |-> NoIntent]
      [] out.kind = "nonjson" -> [exc |-> "JSONDecodeError", value |-> NoIntent]
      [] OTHER -> [exc |-> NoException, value |-> out.value]

(***************************************************************************)
(* ConversationAgent._parse_intent, lines 100-123                          *)
(***************************************************************************)
\* a handler that catches the request's errors only
ParseIntentNarrowExcept(out) ==
    IF out.kind = "fail" THEN [exc |-> NoException, value |-> FallbackIntent]
    ELSE JsonLoads(out)

ParseIntent(out) ==
    LET loaded == JsonLoads(out)
    IN  IF out.kind = "fail" \/ loaded.exc # NoException
        THEN [exc |-> NoException, value |-> FallbackIntent]
        ELSE [exc |-> NoException, value |-> loaded.value]

(***************************************************************************)
(* ConversationAgent._execute_graph_modification, lines 125-211            *)
(***************************************************************************)
DefaultWeight == 7

\* one mutation record {"type": ..., "data": {...}}; a field the type does
\* not carry is 0 or Missing
NoData ==
    [type |-> "none", node_id |-> 0, source_id |-> 0, target_id |-> 0,
     edge_id |-> 0, relationship_type |-> Missing, weight |-> 0,
     title |-> Missing, description |-> Missing, node_type |-> Missing,
     impact_score |-> Missing, source |-> Missing]

Returned(mods) == [exc |-> NoException, mods |-> mods]
Raised(e) == [exc |-> e, mods |-> <<>>]

\* title.lower() needs a str
IsStr(v) == v.k = "str"

\* the branch reading its parameters without defaults
AddNodeBranchNoDefaults(params) ==
    Returned(<<[NoData EXCEPT
        !.type = "add_node",
        !.title = params.title,
        !.description = Str(<<>>),
        !.node_type = params.node_type,
        !.impact_score = params.impact_score,
        !.source = Str(<<"user">>)]>>)

\* line 136-147
AddNodeBranch(params) ==
    Returned(<<[NoData EXCEPT
        !.type = "add_node",
        !.title = Get(params.title, Str(<<"New Factor">>)),
        !.description = Str(<<>>),
        !.node_type = Get(params.node_type, Str(<<"factor">>)),
        !.impact_score = Get(params.impact_score, Num(5)),
        !.source = Str(<<"user">>)]>>)

\* the branch emitting "remove_node" for either action
NodeBranchAlwaysRemove(type, params, c) ==
    LET node_title == Get(params.node_title, Str(<<>>))
    IN  IF ~IsStr(node_title) THEN Raised("AttributeError")
        ELSE LET matching_node == FindNodeByTitle(c, node_title.s)
             IN  IF matching_node # NoNode
                 THEN Returned(<<[NoData EXCEPT !.type = "remove_node",
                                                !.node_id = matching_node.id]>>)
                 ELSE Returned(<<>>)

\* the branch without its `if matching_node` test
NodeBranchUnchecked(type, params, c) ==
    LET node_title == Get(params.node_title, Str(<<>>))
    IN  IF ~IsStr(node_title) THEN Raised("AttributeError")
        ELSE Returned(<<[NoData EXCEPT
                !.type = type,
                !.node_id = FindNodeByTitle(c, node_title.s).id]>>)

\* lines 149-171; type is "remove_node" or "modify_node"
NodeBranch(type, params, c) ==
    LET node_title == Get(params.node_title, Str(<<>>))
    IN  IF ~IsStr(node_title) THEN Raised("AttributeError")
        ELSE LET matching_node == FindNodeByTitle(c, node_title.s)
             IN  IF matching_node # NoNode
                 THEN Returned(<<[NoData EXCEPT !.type = type,
                                                !.node_id = matching_node.id]>>)
                 ELSE Returned(<<>>)

\* lines 173-191
AddEdgeBranch(params, c) ==
    LET source_title == Get(params.source_title, Str(<<>>))
        target_title == Get(params.target_title, Str(<<>>))
        relationship_type == Get(params.relationship_type, Str(<<"influences">>))
    IN  IF ~IsStr(source_title) \/ ~IsStr(target_title)
        THEN Raised("AttributeError")
        ELSE LET source_node == FindNodeByTitle(c, source_title.s)
                 target_node == FindNodeByTitle(c, target_title.s)
             IN  IF source_node # NoNode /\ target_node # NoNode
                 THEN Returned(<<[NoData EXCEPT
                        !.type = "add_edge",
                        !.source_id = source_node.id,
                        !.target_id = target_node.id,
                        !.relationship_type = relationship_type,
                        !.weight = DefaultWeight]>>)
                 ELSE Returned(<<>>)

\* lines 193-209
RemoveEdgeBranch(params, c) ==
    LET source_title == Get(params.source_title, Str(<<>>))
        target_title == Get(params.target_title, Str(<<>>))
    IN  IF ~IsStr(source_title) \/ ~IsStr(target_title)
        THEN Raised("AttributeError")
        ELSE LET source_node == FindNodeByTitle(c, source_title.s)
                 target_node == FindNodeByTitle(c, target_title.s)
                 matching_edge ==
                    FindEdgeBetweenNodes(c, source_node.id, target_node.id)
             IN  IF source_node # NoNode /\ target_node # NoNode
                    /\ matching_edge # NoEdge
                 THEN Returned(<<[NoData EXCEPT !.type = "remove_edge",
                                                !.edge_id = matching_edge.id]>>)
                 ELSE Returned(<<>>)

\* a synthesizer that emits the edge as soon as one endpoint resolves
ExecuteGraphModificationEitherEndpoint(intent_, c) ==
    LET params == intent_.parameters
        source_title == Get(params.source_title, Str(<<>>))
        target_title == Get(params.target_title, Str(<<>>))
    IN  IF intent_.action # "add_edge" \/ params.ptype = "notdict"
           \/ ~IsStr(source_title) \/ ~IsStr(target_title)
        THEN Returned(<<>>)
        ELSE LET source_node == FindNodeByTitle(c, source_title.s)
                 target_node == FindNodeByTitle(c, target_title.s)
             IN  IF source_node # NoNode \/ target_node # NoNode
                 THEN Returned(<<[NoData EXCEPT
                        !.type = "add_edge",
                        !.source_id = source_node.id,
                        !.target_id = target_node.id,
                        !.weight = DefaultWeight]>>)
                 ELSE Returned(<<>>)

\* a synthesizer whose unmatched actions fall through to add_node
ExecuteGraphModificationDefaultAdds(intent_, c) ==
    IF intent_.action \in {"remove_node", "modify_node", "add_edge", "remove_edge"}
    THEN Returned(<<>>)
    ELSE AddNodeBranch(NoParams("dict"))

\* a synthesizer that drops what a low-confidence intent asks for
ExecuteGraphModificationGated(intent_, c) ==
    LET action == intent_.action
        params == intent_.parameters
    IN  IF intent_.confidence < 5 THEN Returned(<<>>)
        ELSE IF action \notin {"add_node", "remove_node", "modify_node",
                               "add_edge", "remove_edge"}
        THEN Returned(<<>>)
        ELSE IF params.ptype = "notdict" THEN Raised("AttributeError")
        ELSE CASE action = "add_node" -> AddNodeBranch(params)
               [] action \in {"remove_node", "modify_node"} ->
                    NodeBranch(action, params, c)
               [] action = "add_edge" -> AddEdgeBranch(params, c)
               [] action = "remove_edge" -> RemoveEdgeBranch(params, c)

ExecuteGraphModification(intent_, c) ==
    LET action == intent_.action
        params == intent_.parameters
    IN  IF action \notin {"add_node", "remove_node", "modify_node",
                          "add_edge", "remove_edge"}
        THEN Returned(<<>>)
        \* params.get on a value that is no dict
        ELSE IF params.ptype = "notdict" THEN Raised("AttributeError")
        ELSE CASE action = "add_node" -> AddNodeBranch(params)
               [] action \in {"remove_node", "modify_node"} ->
                    NodeBranch(action, params, c)
               [] action = "add_edge" -> AddEdgeBranch(params, c)
               [] action = "remove_edge" -> RemoveEdgeBranch(params, c)

(***************************************************************************)
(* ConversationAgent._generate_response, lines 236-254, and ChatResponse   *)
(***************************************************************************)
RespOutcomes == {"fail", "null", "text"}

\* a message: kind "model" (the model's text), "changes" (the templated
\* sentence with n), "generic" (the fixed acknowledgement), "null" (None)
Message(kind, n) == [kind |-> kind, n |-> n]

\* a fallback that always returns the generic acknowledgement
GenerateResponseGeneric(out, mods) ==
    CASE out = "text" -> Message("model", 0)
      [] out = "null" -> Message("null", 0)
      [] OTHER -> Message("generic", 0)

GenerateResponse(out, mods) ==
    CASE out = "text" -> Message("model", 0)
      [] out = "null" -> Message("null", 0)
      [] OTHER -> IF mods # <<>> THEN Message("changes", Len(mods))
                  ELSE Message("generic", 0)

NoResponse ==
    [message |-> Message("none", 0), graph_modifications |-> <<>>,
     suggestions |-> "absent"]

\* ChatResponse(message: str, graph_modifications, suggestions: Optional[List[str]])
ChatResponseValid(message, suggestions) ==
    /\ message.kind # "null"
    /\ suggestions # "notlist"

(***************************************************************************)
(* llm_client.py: LLMClient, the gateway to the two model backends.        *)
(***************************************************************************)
\* values of the LLM_PROVIDER environment variable ("unset" when it is not
\* set) and of the provider argument ("None" when it is omitted)
ProviderNames == {"ollama", "openai", "OpenAI", "vllm"}
EnvProviders == ProviderNames \cup {"unset"}
ArgProviders == ProviderNames \cup {"None", ""}

\* str.lower on a provider name
LowerName(s) == IF s = "OpenAI" THEN "openai" ELSE s

\* lines 12-14
LLM_PROVIDER(env) == LowerName(IF env = "unset" THEN "ollama" ELSE env)

\* line 16 and the model name of the agent's own requests
MODEL_NAME == "llama3.2:3b"
ModelNames == {MODEL_NAME, "gpt-4"}

\* lines 26-33; openaiImported is `openai is not None` (lines 19-22)
LLMClientInit(arg, env, openaiImported) ==
    LET p == LowerName(IF arg \in {"None", ""} THEN LLM_PROVIDER(env) ELSE arg)
    IN  [provider |-> p, openai_client |-> (p = "openai" /\ openaiImported)]

\* the instance the variables describe
Self == [provider |-> provider, openai_client |-> openai_client]

\* a dispatch that looks at the model name of the call
DispatchByModel(self, model) ==
    [backend |-> IF model = "gpt-4" THEN "openai" ELSE "ollama",
     model |-> model]

\* lines 42-48: the backend the call is sent to, and the model it names
Dispatch(self, model) ==
    IF self.provider = "ollama"
    THEN [backend |-> "ollama", model |-> model]
    ELSE IF self.provider = "openai" /\ self.openai_client
    THEN [backend |-> "openai", model |-> model]
    ELSE [backend |-> "ollama", model |-> model]

\* how the request to the backend ends
Transports == {"ok", "timeout", "status", "refused"}

Content == [kind |-> "content", lib |-> "none", type |-> "none"]
Failure(lib, type) == [kind |-> "raised", lib |-> lib, type |-> type]
NoResult == [kind |-> "none", lib |-> "none", type |-> "none"]

\* lines 64-69: client.post and raise_for_status raise httpx's exceptions,
\* and nothing catches them
OllamaChat(t) ==
    CASE t = "ok" -> Content
      [] t = "timeout" -> Failure("httpx", "TimeoutException")
      [] t = "status" -> Failure("httpx", "HTTPStatusError")
      [] t = "refused" -> Failure("httpx", "ConnectError")

\* lines 74-79: chat.completions.create raises the openai package's
\* exceptions, and nothing catches them
OpenaiChat(t) ==
    CASE t = "ok" -> Content
      [] t = "timeout" -> Failure("openai", "APITimeoutError")
      [] t = "status" -> Failure("openai", "APIStatusError")
      [] t = "refused" -> Failure("openai", "APIConnectionError")

\* lines 35-48: what the call gives its caller
ChatCompletion(self, model, t) ==
    IF Dispatch(self, model).backend = "ollama"
    THEN OllamaChat(t)
    ELSE OpenaiChat(t)

\* LLMClient() in an environment without LLM_PROVIDER, not yet called
DefaultGateway ==
    /\ provider = LLMClientInit("None", "unset", TRUE).provider
    /\ openai_client = LLMClientInit("None", "unset", TRUE).openai_client
    /\ served = <<>>
    /\ gwResult = NoResult

\* conversation_agent.py:16-19, 101-102, 238-239: the agent's own client
AgentRequest == [backend |-> "openai", model |-> "gpt-4"]

(***************************************************************************)
(* ConversationAgent.process_message, lines 29-45: the three steps of a    *)
(* chat turn.                                                              *)
(***************************************************************************)
ChatTitles == {<<"A">>, <<"a", "b">>}

EdgePairs(n) == (1..n) \X (1..n)

ChatSnapshots ==
    UNION {
        {[nodes |-> MkNodes(ts), edges |-> MkEdges(es)]
            : ts \in [1..n -> ChatTitles], es \in SeqsUpTo(EdgePairs(n), MaxEdges)}
        : n \in 0..MaxChatNodes}

NoContent == [kind |-> "none", tokens |-> <<>>]
NoEvaluation == [keys |-> {}, score |-> 0, reasoning |-> "none"]

NoLookup == [source_id |-> 0, target_id |-> 0]
NoContext == [lines |-> <<>>, more |-> 0, text |-> "none"]
NoSuggestion == [kind |-> "none", value |-> "none"]

\* no call made yet
IdleCalls ==
    /\ parseOut = NoOutcome /\ intent = NoIntent /\ modifications = <<>>
    /\ respOut = "none" /\ response = NoResponse /\ exc = NoExc /\ llmCalls = 0
    /\ goalOut = NoContent /\ evaluation = NoEvaluation
    /\ lookup = NoLookup /\ edge = NoEdge
    /\ context = NoContext /\ suggested = NoSuggestion

\* nothing called yet, no other request in progress; a new connection has
\* SQLite's default setting
Idle ==
    /\ IdleCalls
    /\ turns = <<>>
    /\ foreign_keys = FALSE

\* main.py:189-193: the agent is built and the snapshot is read from the
\* database
Init ==
    /\ constellation \in ChatSnapshots
    /\ stored = constellation
    /\ pc = "start"
    /\ title = <<>> /\ found = NoNode
    /\ Idle
    /\ DefaultGateway

\* a parse step that sends its request again when the first one failed
ProcessMessageParseRetrying ==
    /\ pc = "start"
    /\ \E out \in ParseOutcomes :
        /\ parseOut' = out
        /\ llmCalls' = llmCalls + (IF out.kind = "fail" THEN 2 ELSE 1)
        /\ intent' = ParseIntent(out).value
    /\ pc' = "parsed"
    /\ served' = Append(served, AgentRequest)
    /\ UNCHANGED <<constellation, title, found, modifications, respOut,
                   response, goalOut, evaluation, exc>>
    /\ UNCHANGED <<stored, provider, openai_client, gwResult>>
    /\ UNCHANGED others

\* line 30
ProcessMessageParse ==
    /\ pc = "start"
    /\ \E out \in ParseOutcomes :
        LET r == ParseIntent(out)
        IN  /\ parseOut' = out
            /\ llmCalls' = llmCalls + 1
            /\ IF r.exc # NoException
               THEN /\ pc' = "raised"
                    /\ exc' = [type |-> r.exc, at |-> "_parse_intent"]
                    /\ UNCHANGED intent
               ELSE /\ pc' = "parsed"
                    /\ intent' = r.value
                    /\ UNCHANGED exc
    /\ served' = Append(served, AgentRequest)
    /\ UNCHANGED <<constellation, title, found, modifications, respOut,
                   response, goalOut, evaluation>>
    /\ UNCHANGED <<stored, provider, openai_client, gwResult>>
    /\ UNCHANGED others

\* a step that applies the removal it emits to the snapshot
ProcessMessageModifyApplying ==
    /\ pc = "parsed"
    /\ intent.jtype = "object"
    /\ LET r == ExecuteGraphModification(intent, constellation)
       IN  /\ r.exc = NoException
           /\ modifications' = r.mods
           /\ constellation' =
                IF r.mods # <<>> /\ r.mods[1].type = "remove_node"
                THEN [constellation EXCEPT !.nodes =
                        SelectSeq(constellation.nodes,
                                  LAMBDA nd : nd.id # r.mods[1].node_id)]
                ELSE constellation
    /\ pc' = "synthesized"
    /\ UNCHANGED <<title, found, parseOut, intent, respOut, response, exc,
                   llmCalls, goalOut, evaluation>>
    /\ UNCHANGED <<stored, provider, openai_client, served, gwResult>>
    /\ UNCHANGED others

\* lines 33-35
ProcessMessageModify ==
    /\ pc = "parsed"
    /\ IF intent.jtype # "object"
       THEN \* intent.get on a list, a string, a number or None
            /\ pc' = "raised"
            /\ exc' = [type |-> "AttributeError", at |-> "process_message"]
            /\ UNCHANGED modifications
       ELSE IF intent.action # "MISSING" /\ intent.action # "query"
       THEN LET r == ExecuteGraphModification(intent, constellation)
            IN  IF r.exc # NoException
                THEN /\ pc' = "raised"
                     /\ exc' = [type |-> r.exc,
                                at |-> "_execute_graph_modification"]
                     /\ UNCHANGED modifications
                ELSE /\ pc' = "synthesized"
                     /\ modifications' = r.mods
                     /\ UNCHANGED exc
       ELSE /\ pc' = "synthesized"
            /\ modifications' = <<>>
            /\ UNCHANGED exc
    /\ UNCHANGED <<constellation, title, found, parseOut, intent, respOut,
                   response, llmCalls, goalOut, evaluation>>
    /\ UNCHANGED <<stored, provider, openai_client, served, gwResult>>
    /\ UNCHANGED others

\* a final step that deletes from the database what the turn removed
ProcessMessageRespondPersisting ==
    /\ pc = "synthesized"
    /\ \E out \in RespOutcomes :
        /\ respOut' = out
        /\ response' = [message |-> GenerateResponse(out, modifications),
                        graph_modifications |-> modifications,
                        suggestions |-> intent.suggestions]
    /\ stored' =
        IF modifications # <<>> /\ modifications[1].type = "remove_node"
        THEN [stored EXCEPT !.nodes =
                SelectSeq(stored.nodes,
                          LAMBDA nd : nd.id # modifications[1].node_id)]
        ELSE stored
    /\ pc' = "returned"
    /\ llmCalls' = llmCalls + 1
    /\ served' = Append(served, AgentRequest)
    /\ UNCHANGED <<constellation, title, found, parseOut, intent,
                   modifications, goalOut, evaluation, exc>>
    /\ UNCHANGED <<provider, openai_client, gwResult>>
    /\ UNCHANGED others

\* lines 38-45
ProcessMessageRespond ==
    /\ pc = "synthesized"
    /\ \E out \in RespOutcomes :
        LET response_text == GenerateResponse(out, modifications)
            suggestions == intent.suggestions
        IN  /\ respOut' = out
            /\ llmCalls' = llmCalls + 1
            /\ IF ChatResponseValid(response_text, suggestions)
               THEN /\ pc' = "returned"
                    /\ response' = [message |-> response_text,
                                    graph_modifications |-> modifications,
                                    suggestions |-> suggestions]
                    /\ UNCHANGED exc
               ELSE /\ pc' = "raised"
                    /\ exc' = [type |-> "ValidationError", at |-> "ChatResponse"]
                    /\ UNCHANGED response
    /\ served' = Append(served, AgentRequest)
    /\ UNCHANGED <<constellation, title, found, parseOut, intent,
                   modifications, goalOut, evaluation>>
    /\ UNCHANGED <<stored, provider, openai_client, gwResult>>
    /\ UNCHANGED others

Next == ProcessMessageParse \/ ProcessMessageModify \/ ProcessMessageRespond

Spec == Init /\ [][Next]_vars

(***************************************************************************)
(* Properties of the chat turn.                                            *)
(***************************************************************************)
IsFallbackIntent(v) ==
    /\ v.jtype = "object"
    /\ v.action = "general"
    /\ v.parameters = NoParams("dict")
    /\ v.confidence = 1
    /\ v.suggestions = "rephrase"

\* the synthesis step of the turn has returned
Synthesized ==
    \/ pc \in {"synthesized", "returned"}
    \/ (pc = "raised" /\ exc.at = "ChatResponse")

\* C1: when the intent-parsing call fails or returns text that is not valid
\* JSON, _parse_intent returns exactly the fallback intent (action general,
\* empty parameters, confidence 0.1, one rephrase suggestion) and raises
\* nothing.
ParseFailureYieldsFallback ==
    (pc # "start" /\ parseOut.kind \in {"fail", "nonjson"})
        => /\ IsFallbackIntent(intent)
           /\ exc.at # "_parse_intent"

\* the parse step has returned the fallback for text that is not JSON
NonJsonParsedToFallback ==
    /\ pc = "parsed"
    /\ parseOut.kind = "nonjson"
    /\ IsFallbackIntent(intent)

\* the model returned valid JSON that does not match the intent schema
SchemaMismatch ==
    /\ parseOut.kind = "json"
    /\ \/ parseOut.value.jtype # "object"
       \/ parseOut.value.action \notin Actions

\* C2: valid JSON that does not match the intent schema (a list, string,
\* number or null, or an object whose action is none of the seven) yields
\* the fallback intent, and no exception from parsing or from consuming the
\* parsed value reaches the caller of process_message.
SchemaMismatchYieldsFallback ==
    (pc # "start" /\ SchemaMismatch)
        => /\ IsFallbackIntent(intent)
           /\ exc.at \notin {"_parse_intent", "process_message",
                             "_execute_graph_modification"}

\* C3: whatever the outcomes of the two model calls, process_message does
\* not end in an exception, and the ChatResponse it returns carries a text
\* message.
ChatTurnNeverRaises ==
    /\ pc # "raised"
    /\ pc = "returned" => response.message.kind \in {"model", "changes", "generic"}

\* some node's lowercased title contains the lowercased string t or is
\* contained in it (equality is a case of both)
TitleResolves(t) ==
    \E i \in 1..Len(constellation.nodes) :
        \/ StrIn(Lower(t), Lower(constellation.nodes[i].title))
        \/ StrIn(Lower(constellation.nodes[i].title), Lower(t))

\* the title parameter v is a string (the empty one when absent) that names
\* no node of the snapshot
Unresolved(v) ==
    /\ Get(v, Str(<<>>)).k = "str"
    /\ ~TitleResolves(Get(v, Str(<<>>)).s)

Resolved(v) ==
    /\ Get(v, Str(<<>>)).k = "str"
    /\ TitleResolves(Get(v, Str(<<>>)).s)

\* C6: for an add_edge intent whose source title or target title names no
\* node of the snapshot, the synthesizer returns the empty list.
AddEdgeUnresolvedEmitsNothing ==
    (/\ Synthesized
     /\ intent.action = "add_edge"
     /\ \/ Unresolved(intent.parameters.source_title)
        \/ Unresolved(intent.parameters.target_title))
        => modifications = <<>>

\* an add_edge whose source names a node and whose target names none has
\* been synthesized to the empty list
AddEdgeHalfResolvedDropped ==
    /\ Synthesized
    /\ intent.action = "add_edge"
    /\ Resolved(intent.parameters.source_title)
    /\ Unresolved(intent.parameters.target_title)
    /\ modifications = <<>>

\* C7: every entity id an emitted mutation carries is present in the
\* snapshot: add_edge source_id and target_id and remove_node/modify_node
\* node_id are ids of snapshot nodes, remove_edge edge_id is the id of a
\* snapshot edge.
MutationIdsInSnapshot ==
    \A i \in 1..Len(modifications) :
        LET m == modifications[i]
        IN  /\ m.type = "add_edge"
                => m.source_id \in NodeIds(constellation)
                   /\ m.target_id \in NodeIds(constellation)
            /\ m.type \in {"remove_node", "modify_node"}
                => m.node_id \in NodeIds(constellation)
            /\ m.type = "remove_edge" => m.edge_id \in EdgeIds(constellation)

\* a turn has returned an add_edge between two different snapshot nodes
AddEdgeEmitted ==
    /\ pc = "returned"
    /\ Len(modifications) = 1
    /\ modifications[1].type = "add_edge"
    /\ modifications[1].source_id # modifications[1].target_id

\* C8: the synthesis step reads the intent and the snapshot only: it leaves
\* both unchanged and issues no model request.
SynthesizerIsPure ==
    [][(pc = "parsed" /\ pc' # "parsed")
        => /\ constellation' = constellation
           /\ intent' = intent
           /\ llmCalls' = llmCalls]_vars

\* the synthesis step has emitted a mutation after the single parse request
MutationSynthesized ==
    /\ pc = "synthesized"
    /\ modifications # <<>>
    /\ modifications[1].type = "remove_node"
    /\ llmCalls = 1

\* the modification step has been passed: it returned or raised
PastModify == pc \notin {"start", "parsed"}

\* C11: an add_node intent yields exactly one add_node mutation, on every
\* snapshot; a missing title, node_type or impact_score takes its default
\* ("New Factor", "factor", 0.5), a given one is carried, and source is
\* "user" whatever the parameters hold.
AddNodeAlwaysEmitsOne ==
    (/\ PastModify
     /\ intent.jtype = "object"
     /\ intent.action = "add_node"
     /\ intent.parameters.ptype # "notdict")
        => /\ Synthesized
           /\ Len(modifications) = 1
           /\ modifications[1].type = "add_node"
           /\ modifications[1].source = Str(<<"user">>)
           /\ modifications[1].title =
                IF intent.parameters.title = Missing THEN Str(<<"New Factor">>)
                ELSE intent.parameters.title
           /\ modifications[1].node_type =
                IF intent.parameters.node_type = Missing THEN Str(<<"factor">>)
                ELSE intent.parameters.node_type
           /\ modifications[1].impact_score =
                IF intent.parameters.impact_score = Missing THEN Num(5)
                ELSE intent.parameters.impact_score

\* an add_node without any parameter, synthesized on the empty snapshot
AddNodeDefaultedOnEmptySnapshot ==
    /\ pc = "synthesized"
    /\ constellation.nodes = <<>>
    /\ intent.action = "add_node"
    /\ intent.parameters.title = Missing
    /\ intent.parameters.impact_score = Missing
    /\ Len(modifications) = 1
    /\ modifications[1].title = Str(<<"New Factor">>)

\* the id of the node the string t names: the first node whose title equals
\* t ignoring case, else the first whose title contains t or is contained
\* in it (a node's id is its position); 0 when there is none
ResolvedId(t) ==
    LET n == Len(constellation.nodes)
        eq == {i \in 1..n : Lower(constellation.nodes[i].title) = Lower(t)}
        sub == {i \in 1..n :
                    \/ StrIn(Lower(t), Lower(constellation.nodes[i].title))
                    \/ StrIn(Lower(constellation.nodes[i].title), Lower(t))}
    IN  IF eq # {} THEN CHOOSE i \in eq : \A j \in eq : i <= j
        ELSE IF sub # {} THEN CHOOSE i \in sub : \A j \in sub : i <= j
        ELSE 0

\* the string a title parameter stands for ("" when absent)
TitleOf(v) == Get(v, Str(<<>>)).s

\* C12: a remove_node or modify_node intent whose node_title names no node
\* yields the empty list and no error; one whose title resolves yields
\* exactly one mutation of the intent's type carrying the resolved node's id.
NodeIntentResolvesOrDrops ==
    (/\ PastModify
     /\ intent.jtype = "object"
     /\ intent.action \in {"remove_node", "modify_node"}
     /\ intent.parameters.ptype # "notdict")
        => /\ Unresolved(intent.parameters.node_title)
                => Synthesized /\ modifications = <<>>
           /\ Resolved(intent.parameters.node_title)
                => /\ Synthesized
                   /\ Len(modifications) = 1
                   /\ modifications[1].type = intent.action
                   /\ modifications[1].node_id =
                        ResolvedId(TitleOf(intent.parameters.node_title))

\* a modify_node that resolved its title to the second node
ModifyNodeResolved ==
    /\ pc = "synthesized"
    /\ intent.action = "modify_node"
    /\ Len(modifications) = 1
    /\ modifications[1].type = "modify_node"
    /\ modifications[1].node_id = 2

\* some snapshot edge joins the nodes a and b, in either direction
EdgeJoins(e, a, b) ==
    \/ (e.source_id = a /\ e.target_id = b)
    \/ (e.source_id = b /\ e.target_id = a)

\* C13: a remove_edge intent yields nothing when its source title, its
\* target title or the edge between the two resolved nodes does not resolve;
\* what it yields is exactly one remove_edge mutation whose edge_id is the id
\* of a snapshot edge joining exactly the two resolved nodes.
RemoveEdgeResolvesOrDrops ==
    (/\ Synthesized
     /\ intent.action = "remove_edge")
        => LET sid == ResolvedId(TitleOf(intent.parameters.source_title))
               tid == ResolvedId(TitleOf(intent.parameters.target_title))
               joining == {i \in 1..Len(constellation.edges) :
                            EdgeJoins(constellation.edges[i], sid, tid)}
           IN  /\ (sid = 0 \/ tid = 0 \/ joining = {}) => modifications = <<>>
               /\ modifications # <<>>
                    => /\ Len(modifications) = 1
                       /\ modifications[1].type = "remove_edge"
                       /\ modifications[1].edge_id \in
                            {constellation.edges[i].id : i \in joining}

\* a remove_edge emitted for an edge stored in the opposite direction
RemoveEdgeEmitted ==
    /\ pc = "synthesized"
    /\ intent.action = "remove_edge"
    /\ Len(modifications) = 1
    /\ modifications[1].type = "remove_edge"
    /\ LET e == constellation.edges[modifications[1].edge_id]
       IN  /\ e.source_id # e.target_id
           /\ e.source_id = ResolvedId(TitleOf(intent.parameters.target_title))

\* C14: for an intent whose action is query or general, on every snapshot,
\* the mutation list of the chat turn is empty.
QueryAndGeneralEmitNothing ==
    (/\ PastModify
     /\ intent.jtype = "object"
     /\ intent.action \in {"query", "general"})
        => /\ Synthesized
           /\ modifications = <<>>
           /\ pc = "returned" => response.graph_modifications = <<>>

\* a turn whose model-parsed general intent returned on a non-empty snapshot
GeneralTurnReturned ==
    /\ pc = "returned"
    /\ parseOut.kind = "json"
    /\ intent.action = "general"
    /\ constellation.nodes # <<>>
    /\ response.graph_modifications = <<>>

\* C16: when the response-generation call fails, the reply is the templated
\* sentence with N the length of the mutation list if that list is not
\* empty, and the fixed generic acknowledgement otherwise.
FailedResponseIsTemplated ==
    (pc = "returned" /\ respOut = "fail")
        => response.message =
            IF modifications # <<>>
            THEN Message("changes", Len(modifications))
            ELSE Message("generic", 0)

\* a turn that answered with the templated sentence for one change
TemplatedReplyReturned ==
    /\ pc = "returned"
    /\ respOut = "fail"
    /\ response.message = Message("changes", 1)
    /\ Len(response.graph_modifications) = 1

ChatTurnUsesConfiguredBackend ==
    \A i \in 1..Len(served) :
        served[i].backend = Dispatch(Self, served[i].model).backend

\* C20: no step of a chat turn changes the snapshot it was given or the
\* graph the database holds, and the response that is returned carries
\* exactly the mutation list the turn synthesized.
ChatTurnPersistsNothing ==
    [][/\ constellation' = constellation
       /\ stored' = stored
       /\ pc' = "returned" => response'.graph_modifications = modifications']_vars

\* a returned turn that asked for a removal the database has not seen
RemovalReturnedNotApplied ==
    /\ pc = "returned"
    /\ Len(response.graph_modifications) = 1
    /\ response.graph_modifications[1].type = "remove_node"
    /\ \E i \in 1..Len(stored.nodes) :
        stored.nodes[i].id = response.graph_modifications[1].node_id
    /\ stored = constellation

\* C28: when a remove_node, modify_node, add_edge or remove_edge intent
\* leaves out a title parameter and the snapshot has nodes, the synthesizer
\* emits no mutation.
OmittedTitleEmitsNothing ==
    (/\ PastModify
     /\ intent.jtype = "object"
     /\ intent.parameters.ptype = "dict"
     /\ constellation.nodes # <<>>
     /\ \/ /\ intent.action \in {"remove_node", "modify_node"}
           /\ intent.parameters.node_title = Missing
        \/ /\ intent.action \in {"add_edge", "remove_edge"}
           /\ \/ intent.parameters.source_title = Missing
              \/ intent.parameters.target_title = Missing)
        => /\ Synthesized
           /\ modifications = <<>>

\* C29: an add_edge mutation emitted for an intent that gives two different
\* endpoint titles joins two different nodes: its source_id differs from
\* its target_id.
AddEdgeJoinsDistinctNodes ==
    (/\ Synthesized
     /\ intent.action = "add_edge"
     /\ modifications # <<>>
     /\ intent.parameters.source_title # Missing
     /\ intent.parameters.target_title # Missing
     /\ TitleOf(intent.parameters.source_title)
            # TitleOf(intent.parameters.target_title))
        => modifications[1].source_id # modifications[1].target_id

\* lines 33-35: what the synthesis step of a turn gives for an intent
TurnModifications(intent_, c) ==
    IF intent_.action # "MISSING" /\ intent_.action # "query"
    THEN ExecuteGraphModification(intent_, c)
    ELSE Returned(<<>>)

\* C24: a turn whose intent differs from this turn's intent only in its
\* confidence value synthesizes, on the same snapshot, the same mutation
\* list (or raises the same exception) and returns the same suggestions.
ConfidenceIsPassThrough ==
    (PastModify /\ intent.jtype = "object")
        => \A cf \in Confidences :
            LET other == [intent EXCEPT !.confidence = cf]
                r == TurnModifications(other, constellation)
            IN  /\ Synthesized
                    => r.exc = NoException /\ r.mods = modifications
                /\ ~Synthesized => r.exc = exc.type
                /\ pc = "returned"
                    => /\ response.graph_modifications = r.mods
                       /\ response.suggestions = other.suggestions

\* a low-confidence intent whose removal was synthesized and returned
LowConfidenceRemovalReturned ==
    /\ pc = "returned"
    /\ intent.confidence = 1
    /\ intent.action = "remove_node"
    /\ Len(response.graph_modifications) = 1

\* the steps a turn may take from each position
TurnSteps ==
    {<<"start", "parsed">>, <<"parsed", "synthesized">>, <<"parsed", "raised">>,
     <<"synthesized", "returned">>, <<"synthesized", "raised">>}

\* C25: a turn goes from the parse to the synthesis to the response and
\* never back; the parse step and the response step each issue exactly one
\* request whether it fails or not, the synthesis step none, so a turn
\* issues at most two and the response request follows the finished parse.
ChatTurnStepsInOrder ==
    [][/\ <<pc, pc'>> \in TurnSteps
       /\ llmCalls' = llmCalls + (IF pc \in {"start", "synthesized"} THEN 1 ELSE 0)
       /\ Len(served') = llmCalls'
       /\ llmCalls' <= 2
       /\ respOut' # "none" => parseOut # NoOutcome /\ pc = "synthesized"]_vars

\* a turn whose two requests both failed has returned after two requests
BothRequestsFailedOnce ==
    /\ pc = "returned"
    /\ parseOut.kind = "fail"
    /\ respOut = "fail"
    /\ llmCalls = 2

(***************************************************************************)
(* GoalRefinementAgent.evaluate_goal and the GoalEvaluation model.         *)
(*                                                                         *)
(* The model's text is a sequence of tokens: a fence ("```"), a fence with *)
(* its language tag ("```json"), prose, or one JSON text:                  *)
(*   RUBRIC     the object the prompt asks for (the five criteria)         *)
(*   MODEL      an object with the fields of GoalEvaluation, in range      *)
(*   MODEL_BAD  the same with a score above 1.0                            *)
(*   LIST       a JSON array                                               *)
(*   BROKEN     text that starts like JSON and is not (a trailing comma)   *)
(***************************************************************************)
Fences == {"FENCE", "FENCEJSON"}
JsonTexts == {"RUBRIC", "MODEL", "MODEL_BAD", "LIST"}
Tokens == Fences \cup JsonTexts \cup {"PROSE", "BROKEN"}

CriteriaKeys == {"specificity", "measurability", "time_boundedness",
                 "personal_relevance", "achievability"}

\* data_models.py:114-119, every field required
GoalEvaluationFields == {"specificity_score", "measurability_score",
                         "time_boundedness_score", "overall_score",
                         "feedback", "areas_for_improvement"}

\* keyword arguments: the keys, the score given with them (a criterion's
\* 1-5 score, or the *_score fields in tenths) and the reasoning
Kwargs(keys, score, reasoning) ==
    [keys |-> keys, score |-> score, reasoning |-> reasoning]

\* goal_refinement_agent.py:101-127
FallbackKwargs == Kwargs(CriteriaKeys, 1, "Evaluation failed")

\* GoalEvaluation(**kwargs): every field of the model is required, each
\* score is within ge=0.0, le=1.0, unknown keys are ignored
GoalEvaluation(kwargs) ==
    IF GoalEvaluationFields \subseteq kwargs.keys
       /\ kwargs.score >= 0 /\ kwargs.score <= 10
    THEN [exc |-> NoException,
          value |-> [kwargs EXCEPT !.keys = GoalEvaluationFields]]
    ELSE [exc |-> "ValidationError", value |-> NoEvaluation]

\* content.replace("```json", "```")
ReplaceFences(tokens) ==
    [i \in 1..Len(tokens) |->
        IF tokens[i] = "FENCEJSON" THEN "FENCE" ELSE tokens[i]]

\* content.split("```")[1]: what stands between the first fence and the next
SplitSecond(tokens) ==
    LET fences == {i \in 1..Len(tokens) : tokens[i] = "FENCE"}
        first == CHOOSE i \in fences : \A j \in fences : i <= j
        rest == {i \in fences : i > first}
        last == IF rest = {} THEN Len(tokens) + 1
                ELSE CHOOSE i \in rest : \A j \in rest : i <= j
    IN  SubSeq(tokens, first + 1, last - 1)

\* json.loads on a token sequence: one JSON text and nothing else
JsonLoadsTokens(tokens) ==
    IF Len(tokens) = 1 /\ tokens[1] \in JsonTexts
    THEN [exc |-> NoException, value |-> tokens[1]]
    ELSE [exc |-> "JSONDecodeError", value |-> "none"]

\* the keyword arguments GoalEvaluation(**evaluation_data) receives
KwargsOf(json) ==
    CASE json = "RUBRIC" -> Kwargs(CriteriaKeys \cup {"suggestions"}, 4, "model")
      [] json = "MODEL" -> Kwargs(GoalEvaluationFields, 5, "model")
      [] json = "MODEL_BAD" -> Kwargs(GoalEvaluationFields, 15, "model")

\* kind: "fail" (chat_completion raised), "null" (it returned None), "text"
GoalOutcome(kind, tokens) == [kind |-> kind, tokens |-> tokens]

GoalOutcomes ==
    {GoalOutcome("fail", <<>>), GoalOutcome("null", <<>>)}
    \cup {GoalOutcome("text", ts) : ts \in SeqsUpTo(Tokens, MaxTokens)}

\* lines 81-96, the body of the try
EvaluateGoalTry(out) ==
    IF out.kind = "fail" THEN [exc |-> "TransportError", value |-> NoEvaluation]
    \* `"```" in content` on None
    ELSE IF out.kind = "null" THEN [exc |-> "TypeError", value |-> NoEvaluation]
    ELSE LET content == IF \E i \in 1..Len(out.tokens) : out.tokens[i] \in Fences
                        THEN SplitSecond(ReplaceFences(out.tokens))
                        ELSE out.tokens
             evaluation_data == JsonLoadsTokens(content)
         IN  IF evaluation_data.exc # NoException
             THEN [exc |-> evaluation_data.exc, value |-> NoEvaluation]
             \* ** on a list
             ELSE IF evaluation_data.value = "LIST"
             THEN [exc |-> "TypeError", value |-> NoEvaluation]
             ELSE GoalEvaluation(KwargsOf(evaluation_data.value))

\* lines 80-127: the fallback is built inside the except clause, so what
\* its construction raises leaves evaluate_goal
EvaluateGoal(out) ==
    LET attempt == EvaluateGoalTry(out)
    IN  IF attempt.exc = NoException THEN attempt
        ELSE GoalEvaluation(FallbackKwargs)

InitGoal ==
    /\ constellation = [nodes |-> <<>>, edges |-> <<>>]
    /\ stored = constellation
    /\ pc = "start"
    /\ title = <<>> /\ found = NoNode
    /\ Idle
    /\ DefaultGateway

\* main.py:136
RefineGoalEvaluate ==
    /\ pc = "start"
    /\ \E out \in GoalOutcomes :
        LET r == EvaluateGoal(out)
        IN  /\ goalOut' = out
            /\ IF r.exc # NoException
               THEN /\ pc' = "raised"
                    /\ exc' = [type |-> r.exc, at |-> "evaluate_goal"]
                    /\ UNCHANGED evaluation
               ELSE /\ pc' = "returned"
                    /\ evaluation' = r.value
                    /\ UNCHANGED exc
    \* line 81: the request goes through the agent's LLMClient
    /\ served' = Append(served, Dispatch(Self, MODEL_NAME))
    /\ UNCHANGED <<constellation, title, found, parseOut, intent,
                   modifications, respOut, response, llmCalls>>
    /\ UNCHANGED <<stored, provider, openai_client, gwResult>>
    /\ UNCHANGED others

NextGoal == RefineGoalEvaluate

SpecGoal == InitGoal /\ [][NextGoal]_vars

\* C4: whatever the model call yields (a transport failure, unparsable
\* text, JSON failing validation, JSON passing it), evaluate_goal returns a
\* Goal Evaluation and no exception escapes it.
EvaluateGoalNeverRaises ==
    /\ pc # "raised"
    /\ pc = "returned" => evaluation # NoEvaluation

\* no token of the text is well-formed JSON
Unparsable(out) ==
    /\ out.kind = "text"
    /\ \A i \in 1..Len(out.tokens) : out.tokens[i] \in {"PROSE", "BROKEN"}

\* C5: for unparsable model output the returned evaluation gives each of the
\* five criteria score 1 and reasoning "Evaluation failed", the same value
\* for every unparsable output.
UnparsableYieldsFallbackEvaluation ==
    (pc # "start" /\ Unparsable(goalOut))
        => /\ pc = "returned"
           /\ evaluation.keys = CriteriaKeys
           /\ evaluation.score = 1
           /\ evaluation.reasoning = "Evaluation failed"

\* the text has no fence, and its first token that is not prose is the
\* valid evaluation object
ObjectInUnfencedProse(out) ==
    /\ out.kind = "text"
    /\ \A i \in 1..Len(out.tokens) : out.tokens[i] \notin Fences
    /\ \E i \in 1..Len(out.tokens) : out.tokens[i] = "PROSE"
    /\ \E i \in 1..Len(out.tokens) :
        /\ out.tokens[i] = "MODEL"
        /\ \A j \in 1..(i - 1) : out.tokens[j] = "PROSE"

\* C22: when the text has no fenced block, evaluate_goal parses the first
\* brace-delimited object of the raw text, so a valid evaluation object
\* standing in unfenced prose is the evaluation returned.
ObjectInProseIsUsed ==
    (pc # "start" /\ ObjectInUnfencedProse(goalOut))
        => /\ pc = "returned"
           /\ evaluation = GoalEvaluation(KwargsOf("MODEL")).value

(***************************************************************************)
(* Specification of the entity resolver alone: every snapshot of up to     *)
(* MaxNodes nodes and every title argument of up to MaxTitleLen characters. *)
(***************************************************************************)
ResolveSnapshots ==
    {[nodes |-> MkNodes(ts), edges |-> <<>>] : ts \in SeqsUpTo(NodeTitles, MaxNodes)}

InitResolve ==
    /\ constellation \in ResolveSnapshots
    /\ title = <<>>
    /\ found = NoNode
    /\ pc = "call"
    /\ Idle
    /\ stored = constellation
    /\ DefaultGateway

FindNode ==
    /\ pc = "call"
    /\ \E t \in QueryTitles :
        /\ title' = t
        /\ found' = FindNodeByTitle(constellation, t)
    /\ pc' = "returned"
    /\ UNCHANGED <<constellation, parseOut, intent, modifications,
                   respOut, response, exc, llmCalls, goalOut, evaluation>>
    /\ UNCHANGED <<stored, provider, openai_client, served, gwResult>>
    /\ UNCHANGED others

NextResolve == FindNode

SpecResolve == InitResolve /\ [][NextResolve]_vars

\* positions of the nodes whose title equals the argument, ignoring case
ExactPositions ==
    {i \in 1..Len(constellation.nodes) :
        Lower(constellation.nodes[i].title) = Lower(title)}

\* positions of the nodes whose lowercased title contains the lowercased
\* argument or is contained in it
PartialPositions ==
    {i \in 1..Len(constellation.nodes) :
        \/ StrIn(Lower(title), Lower(constellation.nodes[i].title))
        \/ StrIn(Lower(constellation.nodes[i].title), Lower(title))}

MinOf(S) == CHOOSE i \in S : \A j \in S : i <= j

\* C9: whenever some node's title equals the argument case-insensitively,
\* the resolver returns the first such node in snapshot order, even when a
\* node matching only by substring stands earlier.
ExactMatchWins ==
    (pc = "returned" /\ ExactPositions # {})
        => found = constellation.nodes[MinOf(ExactPositions)]

\* a returned exact match that stands after a node matching only by substring
ExactAfterPartialResolved ==
    /\ pc = "returned"
    /\ ExactPositions # {}
    /\ \E j \in PartialPositions \ ExactPositions : j < MinOf(ExactPositions)
    /\ found = constellation.nodes[MinOf(ExactPositions)]

\* C10: when no title equals the argument case-insensitively, the resolver
\* returns the first node in snapshot order whose lowercased title contains
\* the lowercased argument or is contained in it, and returns not-found
\* exactly when no node satisfies either containment.
SubstringFallback ==
    (pc = "returned" /\ ExactPositions = {})
        => /\ PartialPositions # {}
                => found = constellation.nodes[MinOf(PartialPositions)]
           /\ (found = NoNode) <=> (PartialPositions = {})

\* a node found only because its title is contained in a longer argument,
\* standing after a node that matches in neither direction
ContainedTitleResolved ==
    /\ pc = "returned"
    /\ ExactPositions = {}
    /\ found # NoNode
    /\ Len(found.title) < Len(title)
    /\ found.id > 1

(***************************************************************************)
(* LLMClient alone: an instance built from the environment and the         *)
(* provider argument, then called up to MaxCalls times.                    *)
(***************************************************************************)
InitGateway ==
    /\ constellation = [nodes |-> <<>>, edges |-> <<>>]
    /\ stored = constellation
    /\ pc = "start"
    /\ title = <<>> /\ found = NoNode
    /\ Idle
    /\ \E arg \in ArgProviders, env \in EnvProviders, imported \in BOOLEAN :
        /\ provider = LLMClientInit(arg, env, imported).provider
        /\ openai_client = LLMClientInit(arg, env, imported).openai_client
    /\ served = <<>>
    /\ gwResult = NoResult

\* llm_client.py:35-48
ChatCompletionCall ==
    /\ Len(served) < MaxCalls
    /\ \E model \in ModelNames, t \in Transports :
        /\ served' = Append(served, Dispatch(Self, model))
        /\ gwResult' = ChatCompletion(Self, model, t)
    /\ UNCHANGED <<constellation, pc, title, found, parseOut, intent,
                   modifications, respOut, response, exc, llmCalls, goalOut,
                   evaluation, stored, provider, openai_client>>
    /\ UNCHANGED others

NextGateway == ChatCompletionCall

SpecGateway == InitGateway /\ [][NextGateway]_vars

\* the libraries of the two backends
BackendLibraries == {"httpx", "openai"}

\* C17: a chat_completion call that fails in transport (timeout, error
\* status, refused connection) gives its caller a failure that is not an
\* exception of either backend's library.
GatewayFailureIsUniform ==
    gwResult.kind = "raised" => gwResult.lib \notin BackendLibraries

\* C18: all chat_completion calls on one instance are sent to one and the
\* same backend, whatever model each call names, and the attributes that
\* select the backend never change after construction.
BackendFixedAtConstruction ==
    [][/\ provider' = provider
       /\ openai_client' = openai_client
       /\ \A i, j \in 1..Len(served') : served'[i].backend = served'[j].backend]_vars

\* an instance on the hosted backend called for two different models
HostedInstanceCalledTwice ==
    /\ Len(served) >= 2
    /\ served[1].model # served[2].model
    /\ served[1].backend = "openai"
    /\ served[2].backend = "openai"

(***************************************************************************)
(* Specification of the edge lookup alone: every snapshot of MaxChatNodes  *)
(* nodes with up to MaxEdgeList edges, and every pair of node ids.         *)
(***************************************************************************)
EdgeSnapshots ==
    {[nodes |-> MkNodes(ts), edges |-> MkEdges(es)]
        : ts \in [1..MaxChatNodes -> ChatTitles],
          es \in SeqsUpTo(EdgePairs(MaxChatNodes), MaxEdgeList)}

InitEdge ==
    /\ constellation \in EdgeSnapshots
    /\ stored = constellation
    /\ pc = "call"
    /\ title = <<>> /\ found = NoNode
    /\ Idle
    /\ DefaultGateway

\* conversation_agent.py:287-299
FindEdge ==
    /\ pc = "call"
    /\ \E source_id \in NodeIds(constellation), target_id \in NodeIds(constellation) :
        /\ lookup' = [source_id |-> source_id, target_id |-> target_id]
        /\ edge' = FindEdgeBetweenNodes(constellation, source_id, target_id)
    /\ pc' = "returned"
    /\ UNCHANGED <<constellation, title, found, parseOut, intent, modifications,
                   respOut, response, exc, llmCalls, goalOut, evaluation>>
    /\ UNCHANGED <<stored, provider, openai_client, served, gwResult>>
    /\ UNCHANGED <<context, suggested, turns, foreign_keys>>

NextEdge == FindEdge

SpecEdge == InitEdge /\ [][NextEdge]_vars

\* the snapshot edges from a to b
EdgesFromTo(a, b) ==
    {i \in 1..Len(constellation.edges) :
        /\ constellation.edges[i].source_id = a
        /\ constellation.edges[i].target_id = b}

\* C23: the lookup of (s, t) returns an edge from s to t when the snapshot
\* has one, otherwise an edge from t to s when the snapshot has one, and
\* nothing exactly when no edge joins s and t in either direction.
DirectedMatchFirst ==
    pc = "returned"
        => LET s == lookup.source_id
               t == lookup.target_id
           IN  /\ EdgesFromTo(s, t) # {}
                    => edge.source_id = s /\ edge.target_id = t
               /\ (EdgesFromTo(s, t) = {} /\ EdgesFromTo(t, s) # {})
                    => edge.source_id = t /\ edge.target_id = s
               /\ edge = NoEdge
                    <=> EdgesFromTo(s, t) \cup EdgesFromTo(t, s) = {}

(***************************************************************************)
(* ConversationAgent._build_graph_context, lines 256-269.  The summary is  *)
(* its text kind, its node lines in order and the count named by the last  *)
(* line (0 when there is no such line).                                    *)
(***************************************************************************)
ContextLimit == 10

\* Node.impact_score in tenths: a negative and a positive one
ImpactScores == {-5, 5}

ContextNodes(scores) ==
    [i \in 1..Len(scores) |->
        [id |-> i, title |-> <<"A">>, impact_score |-> scores[i]]]

ContextSnapshots ==
    {[nodes |-> ContextNodes(ss), edges |-> <<>>]
        : ss \in SeqsUpTo(ImpactScores, MaxContextNodes)}

\* line 263
ImpactDesc(impact_score) ==
    IF impact_score > 0 THEN "positive"
    ELSE IF impact_score < 0 THEN "negative"
    ELSE "neutral"

\* line 264
ContextLine(node) ==
    [title |-> node.title, impact_desc |-> ImpactDesc(node.impact_score),
     impact_score |-> node.impact_score]

\* a summary that lists every node
BuildGraphContextUncapped(c) ==
    IF c.nodes = <<>>
    THEN [text |-> "No factors have been added yet.", lines |-> <<>>, more |-> 0]
    ELSE [text |-> "lines",
          lines |-> [i \in 1..Len(c.nodes) |-> ContextLine(c.nodes[i])],
          more |-> IF Len(c.nodes) > ContextLimit
                   THEN Len(c.nodes) - ContextLimit ELSE 0]

\* lines 258-269
BuildGraphContext(c) ==
    IF c.nodes = <<>>
    THEN [text |-> "No factors have been added yet.", lines |-> <<>>, more |-> 0]
    ELSE LET first == SubSeq(c.nodes, 1,
                        IF Len(c.nodes) < ContextLimit THEN Len(c.nodes)
                        ELSE ContextLimit)
         IN  [text |-> "lines",
              lines |-> [i \in 1..Len(first) |-> ContextLine(first[i])],
              more |-> IF Len(c.nodes) > ContextLimit
                       THEN Len(c.nodes) - ContextLimit ELSE 0]

InitContext ==
    /\ constellation \in ContextSnapshots
    /\ stored = constellation
    /\ pc = "call"
    /\ title = <<>> /\ found = NoNode
    /\ Idle
    /\ DefaultGateway

BuildContext ==
    /\ pc = "call"
    /\ context' = BuildGraphContext(constellation)
    /\ pc' = "returned"
    /\ UNCHANGED <<constellation, title, found, parseOut, intent, modifications,
                   respOut, response, exc, llmCalls, goalOut, evaluation>>
    /\ UNCHANGED <<stored, provider, openai_client, served, gwResult>>
    /\ UNCHANGED <<lookup, edge, suggested, turns, foreign_keys>>

NextContext == BuildContext

SpecContext == InitContext /\ [][NextContext]_vars

\* C26: the summary of an empty snapshot is the fixed no-factors text; of
\* any other it has one line for each of the first 10 nodes in snapshot
\* order and no other node, and a last line giving the number of nodes
\* minus 10 exactly when the snapshot has more than 10 nodes.
SummaryCapsAtTen ==
    pc = "returned"
        => LET n == Len(constellation.nodes)
           IN  /\ n = 0 =>
                    /\ context.text = "No factors have been added yet."
                    /\ context.lines = <<>>
                    /\ context.more = 0
               /\ n > 0 =>
                    /\ context.text = "lines"
                    /\ Len(context.lines) = (IF n < 10 THEN n ELSE 10)
                    /\ \A i \in 1..Len(context.lines) :
                        /\ context.lines[i].title = constellation.nodes[i].title
                        /\ context.lines[i].impact_score =
                                constellation.nodes[i].impact_score
                    /\ context.more # 0 <=> n > 10
                    /\ n > 10 => context.more = n - 10

\* the summary of a snapshot of eleven nodes
ElevenNodesSummarised ==
    /\ pc = "returned"
    /\ Len(constellation.nodes) = 11
    /\ Len(context.lines) = 10
    /\ context.more = 1

(***************************************************************************)
(* database/db_manager.py: the nodes and edges tables.  `stored` holds the *)
(* rows; every operation opens a connection of its own (aiosqlite.connect) *)
(* and only initialize() sets PRAGMA foreign_keys = ON, on a connection it *)
(* closes, so an operation runs with the setting a new connection has:     *)
(* off, unless the SQLite library was built with foreign keys on.          *)
(***************************************************************************)
\* ids a request can name: those of stored nodes and one of no node
IdArgs == 1..(MaxDbNodes + 1)

StoredNodeIds == {stored.nodes[i].id : i \in 1..Len(stored.nodes)}
StoredEdgeIds == {stored.edges[i].id : i \in 1..Len(stored.edges)}

\* str(uuid.uuid4()): an id that occurs nowhere in the tables
FreshId(used) ==
    CHOOSE i \in 1..(Cardinality(used) + 1) :
        i \notin used /\ \A j \in 1..(i - 1) : j \in used

UsedNodeIds ==
    StoredNodeIds
    \cup {stored.edges[i].source_id : i \in 1..Len(stored.edges)}
    \cup {stored.edges[i].target_id : i \in 1..Len(stored.edges)}

\* lines 23-76 have run: empty tables
InitDb ==
    /\ stored = [nodes |-> <<>>, edges |-> <<>>]
    /\ constellation = stored
    /\ pc = "ready"
    /\ title = <<>> /\ found = NoNode
    /\ IdleCalls
    /\ turns = <<>>
    /\ foreign_keys \in BOOLEAN
    /\ DefaultGateway

DbFrame ==
    /\ UNCHANGED <<constellation, pc, title, found, parseOut, intent,
                   modifications, respOut, response, llmCalls, goalOut,
                   evaluation>>
    /\ UNCHANGED <<provider, openai_client, served, gwResult>>
    /\ UNCHANGED others

\* lines 264-296
CreateNode ==
    /\ Len(stored.nodes) < MaxDbNodes
    /\ stored' = [stored EXCEPT !.nodes =
                    Append(@, [id |-> FreshId(UsedNodeIds), title |-> <<"A">>])]
    /\ exc' = NoExc
    /\ DbFrame

\* lines 379-385: ON DELETE CASCADE acts only with foreign keys on
DeleteNode ==
    /\ \E node_id \in IdArgs :
        stored' = [nodes |-> SelectSeq(stored.nodes, LAMBDA nd : nd.id # node_id),
                   edges |-> IF foreign_keys
                             THEN SelectSeq(stored.edges,
                                    LAMBDA ed : /\ ed.source_id # node_id
                                                /\ ed.target_id # node_id)
                             ELSE stored.edges]
    /\ exc' = NoExc
    /\ DbFrame

\* lines 388-418: the INSERT fails on a missing endpoint only with foreign
\* keys on
CreateEdge ==
    /\ Len(stored.edges) < MaxDbEdges
    /\ \E source_id \in IdArgs, target_id \in IdArgs :
        IF foreign_keys /\ ~({source_id, target_id} \subseteq StoredNodeIds)
        THEN /\ exc' = [type |-> "IntegrityError", at |-> "create_edge"]
             /\ UNCHANGED stored
        ELSE /\ stored' = [stored EXCEPT !.edges =
                            Append(@, [id |-> FreshId(StoredEdgeIds),
                                       source_id |-> source_id,
                                       target_id |-> target_id])]
             /\ exc' = NoExc
    /\ DbFrame

\* lines 487-493
DeleteEdge ==
    /\ \E edge_id \in 1..MaxDbEdges :
        stored' = [stored EXCEPT !.edges =
                    SelectSeq(@, LAMBDA ed : ed.id # edge_id)]
    /\ exc' = NoExc
    /\ DbFrame

NextDb == CreateNode \/ CreateEdge \/ DeleteNode \/ DeleteEdge

SpecDb == InitDb /\ [][NextDb]_vars

\* C27: after any sequence of create_node, create_edge, delete_node and
\* delete_edge, the source_id and the target_id of every stored edge are
\* ids of stored nodes.
StoredEdgesReferenceStoredNodes ==
    \A i \in 1..Len(stored.edges) :
        /\ stored.edges[i].source_id \in StoredNodeIds
        /\ stored.edges[i].target_id \in StoredNodeIds

(***************************************************************************)
(* GoalRefinementAgent.suggest_improvements, lines 129-182.  The model's   *)
(* text is a sequence of tokens separated by white space: a fence, a fence *)
(* with its tag, prose without braces, or                                  *)
(*   LIST    a JSON array of strings (no brace in it)                      *)
(*   OBJECT  a JSON object                                                 *)
(*   BROKEN  text from "{" to "}" that is not JSON (a trailing comma)      *)
(***************************************************************************)
SuggestTokens == Fences \cup {"PROSE", "LIST", "OBJECT", "BROKEN"}

SuggestOutcomes ==
    {GoalOutcome("fail", <<>>), GoalOutcome("null", <<>>)}
    \cup {GoalOutcome("text", ts) : ts \in SeqsUpTo(SuggestTokens, MaxTokens)}

NoMatch == [matched |-> FALSE, str |-> <<>>]
Match(str) == [matched |-> TRUE, str |-> str]

\* line 159, re.search(r"```(?:json)?\s*([\s\S]+?)\s*```", content): the
\* leftmost fence that has a fence after it opens the block, the next fence
\* closes it, and the group is what stands between the two
SearchFence(tokens) ==
    LET fences == {i \in 1..Len(tokens) : tokens[i] \in Fences}
    IN  IF Cardinality(fences) < 2 THEN NoMatch
        ELSE LET first == CHOOSE i \in fences : \A j \in fences : i <= j
                 rest == fences \ {first}
                 next == CHOOSE i \in rest : \A j \in rest : i <= j
             IN  Match(SubSeq(tokens, first + 1, next - 1))

\* line 164, re.search(r"\{.*\}", content, re.DOTALL): from the first "{"
\* to the last "}" of the text
SearchBraces(tokens) ==
    LET braces == {i \in 1..Len(tokens) : tokens[i] \in {"OBJECT", "BROKEN"}}
    IN  IF braces = {} THEN NoMatch
        ELSE Match(SubSeq(tokens,
                CHOOSE i \in braces : \A j \in braces : i <= j,
                CHOOSE i \in braces : \A j \in braces : i >= j))

\* lines 159-167: the fenced block if there is one, else the braces
ExtractJsonStr(tokens) ==
    IF SearchFence(tokens).matched THEN SearchFence(tokens)
    ELSE SearchBraces(tokens)

\* json.loads on the extracted text: one JSON text and nothing else
JsonLoadsStr(str) ==
    IF Len(str) = 1 /\ str[1] \in {"LIST", "OBJECT"}
    THEN [exc |-> NoException, value |-> str[1]]
    ELSE [exc |-> "JSONDecodeError", value |-> "none"]

Questions(kind, value) == [kind |-> kind, value |-> value]

\* lines 177-182
FallbackQuestions == Questions("fallback", "five questions")

\* lines 147-174, the body of the outer try
SuggestImprovementsTry(out) ==
    IF out.kind = "fail" THEN [exc |-> "TransportError", value |-> NoSuggestion]
    \* re.search on None
    ELSE IF out.kind = "null" THEN [exc |-> "TypeError", value |-> NoSuggestion]
    ELSE LET match == ExtractJsonStr(out.tokens)
         IN  IF ~match.matched
             THEN [exc |-> "ValueError", value |-> NoSuggestion]
             ELSE LET result == JsonLoadsStr(match.str)
                  IN  IF result.exc # NoException
                      THEN [exc |-> "ValueError", value |-> NoSuggestion]
                      ELSE IF result.value = "LIST"
                      THEN [exc |-> NoException,
                            value |-> Questions("parsed", "LIST")]
                      ELSE [exc |-> NoException, value |-> Questions("empty", "[]")]

\* the body without the outer except clause
SuggestImprovementsUncaught(out) == SuggestImprovementsTry(out)

\* lines 146-182
SuggestImprovements(out) ==
    LET attempt == SuggestImprovementsTry(out)
    IN  IF attempt.exc = NoException THEN attempt
        ELSE [exc |-> NoException, value |-> FallbackQuestions]

InitSuggest ==
    /\ constellation = [nodes |-> <<>>, edges |-> <<>>]
    /\ stored = constellation
    /\ pc = "start"
    /\ title = <<>> /\ found = NoNode
    /\ Idle
    /\ DefaultGateway

\* main.py:137
RefineGoalSuggest ==
    /\ pc = "start"
    /\ \E out \in SuggestOutcomes :
        LET r == SuggestImprovements(out)
        IN  /\ goalOut' = out
            /\ IF r.exc # NoException
               THEN /\ pc' = "raised"
                    /\ exc' = [type |-> r.exc, at |-> "suggest_improvements"]
                    /\ UNCHANGED suggested
               ELSE /\ pc' = "returned"
                    /\ suggested' = r.value
                    /\ UNCHANGED exc
    \* line 147: the request goes through the agent's LLMClient
    /\ served' = Append(served, Dispatch(Self, MODEL_NAME))
    /\ UNCHANGED <<constellation, title, found, parseOut, intent,
                   modifications, respOut, response, llmCalls, evaluation>>
    /\ UNCHANGED <<stored, provider, openai_client, gwResult>>
    /\ UNCHANGED <<lookup, edge, context, turns, foreign_keys>>

NextSuggest == RefineGoalSuggest

SpecSuggest == InitSuggest /\ [][NextSuggest]_vars

\* C30: whatever its model call yields, suggest_improvements returns a list
\* and raises nothing: the five fallback questions when the call fails,
\* when the text holds no fenced block and no brace-delimited object, or
\* when what was extracted is not valid JSON; the parsed value when that is
\* a list; the empty list when it is valid JSON of another type.
SuggestAlwaysReturnsList ==
    pc # "start"
        => /\ pc = "returned"
           /\ suggested.kind \in {"fallback", "parsed", "empty"}
           /\ goalOut.kind = "fail" => suggested = FallbackQuestions
           /\ goalOut.kind = "text" =>
                LET match == ExtractJsonStr(goalOut.tokens)
                IN  /\ ~match.matched => suggested = FallbackQuestions
                    /\ (match.matched /\ JsonLoadsStr(match.str).exc # NoException)
                        => suggested = FallbackQuestions
                    /\ (match.matched /\ JsonLoadsStr(match.str).value = "LIST")
                        => suggested = Questions("parsed", "LIST")
                    /\ (match.matched /\ JsonLoadsStr(match.str).value = "OBJECT")
                        => suggested = Questions("empty", "[]")

\* an unfenced JSON array was answered with the fallback questions
UnfencedArrayGotFallback ==
    /\ pc = "returned"
    /\ goalOut = GoalOutcome("text", <<"LIST">>)
    /\ suggested = FallbackQuestions

(***************************************************************************)
(* Concurrent chat requests.  main.py:187-204 builds a new                 *)
(* ConversationAgent and reads a ConstellationDetail for every request;    *)
(* the steps of the requests interleave at their awaits.  Each record of   *)
(* `turns` holds the locals of one process_message call.                   *)
(***************************************************************************)
NewTurn ==
    [pc |-> "start", parseOut |-> NoOutcome, intent |-> NoIntent,
     modifications |-> <<>>, respOut |-> "none", response |-> NoResponse,
     exc |-> NoExc]

\* one-node snapshots, read by every request
TurnSnapshots ==
    {[nodes |-> MkNodes(<<t>>), edges |-> <<>>] : t \in ChatTitles}

\* outcomes of the parse request: a failure, a remove_node and an add_node
TurnOutcomes ==
    {o \in ParseOutcomes :
        \/ o.kind = "fail"
        \/ /\ o.kind = "json"
           /\ o.value.jtype = "object"
           /\ o.value.action \in {"remove_node", "add_node"}
           /\ o.value.confidence = 9
           /\ o.value.suggestions = "list"
           /\ o.value.parameters.title = Missing
           /\ o.value.parameters.node_type = Missing
           /\ o.value.parameters.impact_score = Missing}

InitTurns ==
    /\ constellation \in TurnSnapshots
    /\ stored = constellation
    /\ pc = "serving"
    /\ title = <<>> /\ found = NoNode
    /\ IdleCalls
    /\ turns = [t \in 1..MaxTurns |-> NewTurn]
    /\ foreign_keys = FALSE
    /\ DefaultGateway

TurnsFrame ==
    /\ UNCHANGED <<constellation, pc, title, found, parseOut, intent,
                   respOut, response, exc, goalOut, evaluation>>
    /\ UNCHANGED <<stored, provider, openai_client, gwResult>>
    /\ UNCHANGED <<lookup, edge, context, suggested, foreign_keys>>

\* conversation_agent.py:30
TurnParse(t) ==
    /\ turns[t].pc = "start"
    /\ \E out \in TurnOutcomes :
        turns' = [turns EXCEPT ![t].parseOut = out,
                               ![t].intent = ParseIntent(out).value,
                               ![t].pc = "parsed"]
    /\ llmCalls' = llmCalls + 1
    /\ served' = Append(served, AgentRequest)
    /\ UNCHANGED modifications
    /\ TurnsFrame

\* a synthesis step of an agent shared by the requests, which collects the
\* mutations in one list
TurnModifyShared(t) ==
    /\ turns[t].pc = "parsed"
    /\ LET r == TurnModifications(turns[t].intent, constellation)
       IN  IF r.exc # NoException
           THEN /\ turns' = [turns EXCEPT
                        ![t].exc = [type |-> r.exc,
                                    at |-> "_execute_graph_modification"],
                        ![t].pc = "raised"]
                /\ UNCHANGED modifications
           ELSE /\ modifications' = modifications \o r.mods
                /\ turns' = [turns EXCEPT
                        ![t].modifications = modifications \o r.mods,
                        ![t].pc = "synthesized"]
    /\ UNCHANGED <<llmCalls, served>>
    /\ TurnsFrame

\* conversation_agent.py:33-35
TurnModify(t) ==
    /\ turns[t].pc = "parsed"
    /\ LET r == TurnModifications(turns[t].intent, constellation)
       IN  IF r.exc # NoException
           THEN turns' = [turns EXCEPT
                        ![t].exc = [type |-> r.exc,
                                    at |-> "_execute_graph_modification"],
                        ![t].pc = "raised"]
           ELSE turns' = [turns EXCEPT
                        ![t].modifications = r.mods,
                        ![t].pc = "synthesized"]
    /\ UNCHANGED <<llmCalls, served, modifications>>
    /\ TurnsFrame

\* conversation_agent.py:38-45
TurnRespond(t) ==
    /\ turns[t].pc = "synthesized"
    /\ \E out \in RespOutcomes :
        LET response_text == GenerateResponse(out, turns[t].modifications)
            suggestions == turns[t].intent.suggestions
        IN  IF ChatResponseValid(response_text, suggestions)
            THEN turns' = [turns EXCEPT
                    ![t].respOut = out,
                    ![t].response =
                        [message |-> response_text,
                         graph_modifications |-> turns[t].modifications,
                         suggestions |-> suggestions],
                    ![t].pc = "returned"]
            ELSE turns' = [turns EXCEPT
                    ![t].respOut = out,
                    ![t].exc = [type |-> "ValidationError", at |-> "ChatResponse"],
                    ![t].pc = "raised"]
    /\ llmCalls' = llmCalls + 1
    /\ served' = Append(served, AgentRequest)
    /\ UNCHANGED modifications
    /\ TurnsFrame

NextTurns ==
    \/ \E t \in DOMAIN turns : TurnParse(t)
    \/ \E t \in DOMAIN turns : TurnModify(t)
    \/ \E t \in DOMAIN turns : TurnRespond(t)

SpecTurns == InitTurns /\ [][NextTurns]_vars

\* what a turn run alone synthesizes from the same parse outcome
AloneModifications(out, c) ==
    TurnModifications(ParseIntent(out).value, c)

\* C21: in every interleaving of the steps of concurrent turns on one
\* snapshot, each turn synthesizes and returns the mutation list it gives
\* when run alone with the same model outputs, and no step changes the
\* snapshot the turns read.
ConcurrentTurnsAreIndependent ==
    [][/\ constellation' = constellation
       /\ \A t \in DOMAIN turns :
            LET alone == AloneModifications(turns'[t].parseOut, constellation)
            IN  /\ turns'[t].pc \in {"synthesized", "returned"}
                    => /\ alone.exc = NoException
                       /\ turns'[t].modifications = alone.mods
                /\ turns'[t].pc = "returned"
                    => turns'[t].response.graph_modifications = alone.mods]_vars

\* a turn has returned a removal while another turn, which asked for an
\* addition, is between its synthesis and its response
TurnsInterleaved ==
    /\ turns[1].pc = "returned"
    /\ Len(turns[1].response.graph_modifications) = 1
    /\ turns[1].response.graph_modifications[1].type = "remove_node"
    /\ turns[2].pc = "synthesized"
    /\ Len(turns[2].modifications) = 1
    /\ turns[2].modifications[1].type = "add_node"

====
